---- MODULE Spec2Model ----
(***************************************************************************)
(* One poll cycle of the plaatobbc integration: YourApiClient               *)
(* (api.py), the coordinator update method (__init__.py) and the sensor      *)
(* value derivation (sensor.py).                                             *)
(*                                                                           *)
(* JSON values are tagged records [t, v]:                                    *)
(*   null, bool, num (an integer), str (a sequence of lexemes), list (a      *)
(*   sequence of values), dict (a function from key names to values), and    *)
(*   datetime (a parsed instant, never produced by JSON).                    *)
(* A string is a sequence of lexemes: single characters everywhere, except   *)
(* that the parts of a timestamp ("2024-06-01", "12:00:00", "+00:00") are    *)
(* one lexeme each.                                                          *)
(***************************************************************************)
EXTENDS Integers, Sequences, FiniteSets, TLC

----------------------------------------------------------------------------
(* JSON values and the Python operations on them                             *)

Null == [t |-> "null", v |-> 0]
Num(n) == [t |-> "num", v |-> n]
Str(s) == [t |-> "str", v |-> s]
Bool(b) == [t |-> "bool", v |-> b]
List(s) == [t |-> "list", v |-> s]
Dict(f) == [t |-> "dict", v |-> f]
EmptyDict == Dict(<<>>)

IsDict(x) == x.t = "dict"
IsList(x) == x.t = "list"
IsStr(x) == x.t = "str"
\* isinstance(x, (str, int)): bool is a subclass of int in Python
IsStrOrInt(x) == x.t \in {"str", "num", "bool"}

\* Python truthiness of a value
Truthy(x) ==
    CASE x.t = "null" -> FALSE
      [] x.t = "bool" -> x.v
      [] x.t = "num" -> x.v # 0
      [] x.t = "str" -> x.v # <<>>
      [] x.t = "list" -> x.v # <<>>
      [] x.t = "dict" -> DOMAIN x.v # {}
      [] OTHER -> TRUE

\* a or b
Or(a, b) == IF Truthy(a) THEN a ELSE b

\* d.get(k) on a dict
Get(d, k) == IF k \in DOMAIN d.v THEN d.v[k] ELSE Null

\* first truthy d.get(k) over keys, else the last one looked up (a or b or c)
RECURSIVE GetOr(_, _)
GetOr(d, keys) ==
    IF Len(keys) = 1 THEN Get(d, keys[1])
    ELSE Or(Get(d, keys[1]), GetOr(d, Tail(keys)))

\* decimal digits of a natural number, as lexemes
Digits == <<"0", "1", "2", "3", "4", "5", "6", "7", "8", "9">>

RECURSIVE NatStr(_)
NatStr(n) == IF n < 10 THEN <<Digits[n + 1]>> ELSE NatStr(n \div 10) \o <<Digits[(n % 10) + 1]>>

\* str(x) for the values that reach it (identifiers: strings and integers)
PyStr(x) ==
    CASE x.t = "str" -> x.v
      [] x.t = "num" -> IF x.v < 0 THEN <<"-">> \o NatStr(-x.v) ELSE NatStr(x.v)
      [] x.t = "bool" -> IF x.v THEN <<"T", "r", "u", "e">> ELSE <<"F", "a", "l", "s", "e">>
      [] x.t = "null" -> <<"N", "o", "n", "e">>
      [] OTHER -> <<"?">>

\* code-point order of the lexemes used in compared strings
Alphabet == <<" ", "+", "-", "0", "1", "2", "3", "4", "5", "6", "7", "8", "9", ":", "T", "Z", "a", "b", "d", "w">>

Ord(c) == CHOOSE i \in 1..Len(Alphabet) : Alphabet[i] = c

\* s < t for Python strings (lexicographic by code point)
RECURSIVE StrLess(_, _)
StrLess(s, u) ==
    IF u = <<>> THEN FALSE
    ELSE IF s = <<>> THEN TRUE
    ELSE IF s[1] = u[1] THEN StrLess(Tail(s), Tail(u))
    ELSE Ord(s[1]) < Ord(u[1])

----------------------------------------------------------------------------
(* api.py: the helpers of fetch_readings                                     *)

\* pick(d, *keys): the first d.get(k) that is not None; None for a non-dict
RECURSIVE pick(_, _)
pick(d, keys) ==
    IF ~IsDict(d) \/ keys = <<>> THEN Null
    ELSE IF Get(d, keys[1]) # Null THEN Get(d, keys[1])
    ELSE pick(d, Tail(keys))

IsSpace(c) == c = " "

RECURSIVE LStrip(_)
LStrip(s) == IF s # <<>> /\ IsSpace(s[1]) THEN LStrip(Tail(s)) ELSE s

RECURSIVE RStrip(_)
RStrip(s) == IF s # <<>> /\ IsSpace(s[Len(s)]) THEN RStrip(SubSeq(s, 1, Len(s) - 1)) ELSE s

\* v.strip()
Strip(s) == RStrip(LStrip(s))

IsDigit(c) == \E i \in 1..10 : Digits[i] = c

DigitVal(c) == (CHOOSE i \in 1..10 : Digits[i] = c) - 1

RECURSIVE NatVal(_)
NatVal(s) == IF s = <<>> THEN 0 ELSE 10 * NatVal(SubSeq(s, 1, Len(s) - 1)) + DigitVal(s[Len(s)])

AllDigits(s) == s # <<>> /\ \A i \in 1..Len(s) : IsDigit(s[i])

\* float(s) on a stripped string over the lexemes of Alphabet: an optional
\* sign and decimal digits parse, anything else raises ValueError (Null here)
ParseFloat(s) ==
    IF AllDigits(s) THEN Num(NatVal(s))
    ELSE IF s # <<>> /\ s[1] = "-" /\ AllDigits(Tail(s)) THEN Num(-NatVal(Tail(s)))
    ELSE IF s # <<>> /\ s[1] = "+" /\ AllDigits(Tail(s)) THEN Num(NatVal(Tail(s)))
    ELSE Null

\* as_float(v): numbers and numeric strings, None for anything else
as_float(v) ==
    CASE v.t = "null" -> Null
      [] v.t = "num" -> Num(v.v)
      [] v.t = "bool" -> Num(IF v.v THEN 1 ELSE 0)
      [] v.t = "str" -> ParseFloat(Strip(v.v))
      [] OTHER -> Null

\* [x for x in items if isinstance(x, dict)]
OnlyDicts(items) == SelectSeq(items, IsDict)

RECURSIVE FirstListUnder(_, _)
FirstListUnder(data, keys) ==
    IF keys = <<>> THEN <<>>
    ELSE IF IsList(Get(data, keys[1])) THEN OnlyDicts(Get(data, keys[1]).v)
    ELSE FirstListUnder(data, Tail(keys))

normalize_list_response(data) ==
    IF IsList(data) THEN OnlyDicts(data.v)
    ELSE IF IsDict(data) THEN FirstListUnder(data, <<"items", "data", "results", "batches">>)
    ELSE <<>>

\* a mapping (Python dict keyed by identifier strings) as a function
EmptyMap == <<>>

Put(m, k, x) == [y \in DOMAIN m \cup {k} |-> IF y = k THEN x ELSE m[y]]

MapGet(m, k) == IF k \in DOMAIN m THEN m[k] ELSE Null

----------------------------------------------------------------------------
(* api.py: device -> fermenter name                                          *)

\* the identifier a list item contributes: a plain str/int, or the first
\* truthy identifier field of an object (the order of keys is the caller's)
ItemIds(item, keys) ==
    IF IsStrOrInt(item) THEN <<PyStr(item)>>
    ELSE IF IsDict(item) /\ Truthy(GetOr(item, keys)) THEN <<PyStr(GetOr(item, keys))>>
    ELSE <<>>

RECURSIVE ListIds(_, _)
ListIds(items, keys) ==
    IF items = <<>> THEN <<>>
    ELSE ItemIds(items[1], keys) \o ListIds(Tail(items), keys)

\* variant: only plain identifiers are collected from a list
CollectPlainOnly(items) == ListIds(SelectSeq(items, IsStrOrInt), <<"id", "deviceId", "proId", "_id">>)

\* collect_device_ids on a list
CollectFromList(items) == ListIds(items, <<"id", "deviceId", "proId", "_id">>)

RECURSIVE OwnIds(_, _)
OwnIds(container, keys) ==
    IF keys = <<>> THEN <<>>
    ELSE (IF Truthy(Get(container, keys[1])) THEN <<PyStr(Get(container, keys[1]))>> ELSE <<>>)
         \o OwnIds(container, Tail(keys))

RECURSIVE NestedIds(_, _)
NestedIds(container, keys) ==
    IF keys = <<>> THEN <<>>
    ELSE (IF IsList(Get(container, keys[1])) THEN CollectFromList(Get(container, keys[1]).v) ELSE <<>>)
         \o NestedIds(container, Tail(keys))

collect_device_ids(container) ==
    CASE container.t = "null" -> <<>>
      [] container.t = "dict" ->
            OwnIds(container, <<"proId", "deviceId", "id", "_id">>)
            \o NestedIds(container, <<"items", "data", "devices">>)
      [] container.t = "list" -> CollectFromList(container.v)
      [] IsStrOrInt(container) -> <<PyStr(container)>>
      [] OTHER -> <<>>

FermenterLabel == <<"F", "e", "r", "m", "e", "n", "t", "e", "r">>

\* fer.get("name") or fer.get("title") or fer.get("id") or "Fermenter"
fer_name(fer) == Or(GetOr(fer, <<"name", "title", "id">>), Str(FermenterLabel))

\* possible = [devices, device, {"proId": proId} if proId else None]
possible(fer) ==
    <<Get(fer, "devices"),
      Get(fer, "device"),
      IF Truthy(Get(fer, "proId")) THEN Dict([proId |-> Get(fer, "proId")]) ELSE Null>>

\* every identifier the fermenter refers to, in the order the loops visit them
FermenterDeviceIds(fer) ==
    collect_device_ids(possible(fer)[1]) \o collect_device_ids(possible(fer)[2])
    \o collect_device_ids(possible(fer)[3])

RECURSIVE PutAll(_, _, _)
PutAll(m, ids, x) == IF ids = <<>> THEN m ELSE PutAll(Put(m, ids[1], x), Tail(ids), x)

\* the loop over fermenters: a later fermenter overwrites an earlier one
RECURSIVE device_to_fermenter_name(_, _)
device_to_fermenter_name(fers, m) ==
    IF fers = <<>> THEN m
    ELSE device_to_fermenter_name(
            Tail(fers), PutAll(m, FermenterDeviceIds(fers[1]), Str(PyStr(fer_name(fers[1])))))

----------------------------------------------------------------------------
(* api.py: device -> best batch                                              *)

\* batch.get("name") or batch.get("batchCode") or batch.get("id") or batch.get("_id")
batch_label(batch) == GetOr(batch, <<"name", "batchCode", "id", "_id">>)

\* (enabled, not_archived, not_ended, recency)
batch_rank(batch) ==
    <<IF Get(batch, "enabled") # Bool(FALSE) THEN 1 ELSE 0,
      IF Get(batch, "archived") # Bool(TRUE) THEN 1 ELSE 0,
      IF Get(batch, "end") = Null THEN 1 ELSE 0,
      PyStr(Or(GetOr(batch, <<"updatedAt", "start", "createdAt">>), Str(<<>>)))>>

\* a > b for rank tuples (int, int, int, str): Python's lexicographic order
RankGreater(a, b) ==
    \/ a[1] > b[1]
    \/ a[1] = b[1] /\ a[2] > b[2]
    \/ a[1] = b[1] /\ a[2] = b[2] /\ a[3] > b[3]
    \/ a[1] = b[1] /\ a[2] = b[2] /\ a[3] = b[3] /\ StrLess(b[4], a[4])

extract_device_ids_from_batch_devices(devices_field) ==
    IF ~IsList(devices_field) THEN <<>>
    ELSE ListIds(devices_field.v, <<"id", "_id", "deviceId", "proId">>)

\* variant: the batch listed last wins
ReplacesAlways(batch, existing) == TRUE

\* if not existing or batch_rank(batch) > batch_rank(existing)
Replaces(batch, existing) ==
    \/ ~Truthy(existing)
    \/ RankGreater(batch_rank(batch), batch_rank(existing))

RECURSIVE OfferBatch(_, _, _)
OfferBatch(m, ids, batch) ==
    IF ids = <<>> THEN m
    ELSE OfferBatch(
            IF Replaces(batch, MapGet(m, ids[1])) THEN Put(m, ids[1], batch) ELSE m,
            Tail(ids), batch)

\* the loop over batches
RECURSIVE device_id_to_best_batch(_, _)
device_id_to_best_batch(bs, m) ==
    IF bs = <<>> THEN m
    ELSE device_id_to_best_batch(
            Tail(bs),
            OfferBatch(m, extract_device_ids_from_batch_devices(Get(bs[1], "devices")), bs[1]))

----------------------------------------------------------------------------
(* api.py: per-device extraction, the secondary lookup and the record        *)

TempKeys == <<"temperature", "temp", "tempC", "temperatureC", "beerTemp", "wortTemp">>

SgKeys == <<"density", "sg", "specificGravity", "gravity", "SG">>

TimeKeys == <<"time", "timestamp", "createdAt", "date">>

NestKeys == <<"reading", "data", "values">>

\* latest = dev.get("latestReading") or {}; unwrapped once if it nests a dict
LatestOf(dev) ==
    LET latest == Or(Get(dev, "latestReading"), EmptyDict)
    IN IF IsDict(pick(latest, NestKeys)) THEN pick(latest, NestKeys) ELSE latest

\* latest.get(...) on a value that is no dict raises AttributeError; it is
\* evaluated whenever temp is None, and temp is None for every non-dict
ExtractRaises(dev) == ~IsDict(LatestOf(dev))

\* temp, sg and time from the device's own entry (lines 228-237)
ExtractOwn(dev) ==
    LET latest == LatestOf(dev)
        temp == as_float(pick(latest, TempKeys))
        sg == as_float(pick(latest, SgKeys))
    IN [temp |-> IF temp = Null /\ IsDict(Get(latest, "temperature"))
                 THEN as_float(pick(Get(latest, "temperature"), <<"celsius", "fahrenheit">>))
                 ELSE temp,
        sg |-> IF sg = Null /\ IsDict(Get(latest, "density"))
               THEN as_float(pick(Get(latest, "density"), <<"specificGravity", "plato">>))
               ELSE sg,
        time |-> Or(pick(latest, TimeKeys), pick(dev, <<"latestReadingTime">>))]

\* variant: the lookup is issued for every device
NeedsLookupAlways(own) == TRUE

\* if temp is None or sg is None
NeedsLookup(own) == own.temp = Null \/ own.sg = Null

\* the four candidates of _get_latest_reading, in order
Candidates ==
    <<[path |-> "readings", params |-> "limit"],
      [path |-> "readings", params |-> "take"],
      [path |-> "readings", params |-> "page+pageSize"],
      [path |-> "measurements", params |-> "limit"]>>

\* a request that raised (raise_for_status, timeout, bad JSON)
Throw == [t |-> "throw", v |-> 0]

RECURSIVE FirstItemUnder(_, _)
FirstItemUnder(data, keys) ==
    IF keys = <<>> THEN Throw
    ELSE IF IsList(Get(data, keys[1])) /\ Get(data, keys[1]).v # <<>> THEN Get(data, keys[1]).v[1]
    ELSE FirstItemUnder(data, Tail(keys))

ReadingKeys == {"temperature", "temp", "density", "sg", "specificGravity", "gravity"}

\* what _get_latest_reading returns for a response that did not raise
\* (lines 48-58); FirstItemUnder answers Throw when no key holds a list
ReadingOf(data) ==
    IF IsList(data) THEN (IF data.v # <<>> THEN data.v[1] ELSE Null)
    ELSE IF IsDict(data) THEN
        IF FirstItemUnder(data, <<"items", "readings", "data", "results">>) # Throw
        THEN FirstItemUnder(data, <<"items", "readings", "data", "results">>)
        ELSE IF DOMAIN data.v \cap ReadingKeys # {} THEN data
        ELSE Null
    ELSE Null

\* variant: an exception ends the lookup (return None instead of continue)
LookupStepStopOnThrow(c, resp) ==
    IF resp = Throw THEN [done |-> TRUE, reading |-> Null]
    ELSE [done |-> TRUE, reading |-> ReadingOf(resp)]

\* the loop of _get_latest_reading after candidate c answered resp: an
\* exception moves on to the next candidate, any answer returns
LookupStep(c, resp) ==
    IF resp = Throw
    THEN (IF c < Len(Candidates) THEN [done |-> FALSE, reading |-> Null]
          ELSE [done |-> TRUE, reading |-> Null])
    ELSE [done |-> TRUE, reading |-> ReadingOf(resp)]

\* one field from the looked-up reading (lines 246-252)
FromReading(reading, keys, inner) ==
    LET v == pick(reading, keys)
    IN IF IsDict(v) THEN as_float(pick(v, inner)) ELSE as_float(v)

\* variant: the looked-up reading overwrites what the entry resolved
MergeOverwrite(own, reading) ==
    IF ~IsDict(reading) THEN own
    ELSE LET r == IF IsDict(pick(reading, NestKeys)) THEN pick(reading, NestKeys) ELSE reading
         IN [temp |-> FromReading(r, TempKeys, <<"celsius", "fahrenheit">>),
             sg |-> FromReading(r, SgKeys, <<"specificGravity", "plato">>),
             time |-> pick(r, TimeKeys)]

\* temp, sg and time after the lookup returned reading (lines 241-254)
Merge(own, reading) ==
    IF ~IsDict(reading) THEN own
    ELSE LET r == IF IsDict(pick(reading, NestKeys)) THEN pick(reading, NestKeys) ELSE reading
         IN [temp |-> IF own.temp = Null
                      THEN FromReading(r, TempKeys, <<"celsius", "fahrenheit">>) ELSE own.temp,
             sg |-> IF own.sg = Null
                    THEN FromReading(r, SgKeys, <<"specificGravity", "plato">>) ELSE own.sg,
             time |-> Or(own.time, pick(r, TimeKeys))]

PlaatoPrefix == <<"P", "l", "a", "a", "t", "o", " ">>

\* variant: the name without its fallback
RecordNameNoFallback(dev, dev_id) == Get(dev, "name")

\* dev.get("name") or f"Plaato {dev_id}"
RecordName(dev, dev_id) == Or(Get(dev, "name"), Str(PlaatoPrefix \o dev_id))

\* the record of lines 263-272
Record(dev, dev_id, vals, fmap, bmap) ==
    [name |-> RecordName(dev, dev_id),
     batteryLevel |-> pick(dev, <<"batteryLevel", "battery", "battery_percent">>),
     wifiStrength |-> pick(dev, <<"wifiStrength", "rssi", "signal">>),
     temperature |-> vals.temp,
     density |-> vals.sg,
     time |-> vals.time,
     fermenter |-> MapGet(fmap, dev_id),
     batch |-> IF IsDict(MapGet(bmap, dev_id)) THEN batch_label(MapGet(bmap, dev_id)) ELSE Null]

----------------------------------------------------------------------------
(* sensor.py: PlaatoReadingSensor.native_value                               *)

DateLexemes == {"2024-06-01", "2024-06-02"}

TimeLexemes == {"12:00:00"}

OffsetLexemes == {"+00:00", "+02:00"}

\* val.replace("Z", "+00:00")
RECURSIVE ReplaceZ(_)
ReplaceZ(s) ==
    IF s = <<>> THEN <<>>
    ELSE <<IF s[1] = "Z" THEN "+00:00" ELSE s[1]>> \o ReplaceZ(Tail(s))

Instant(date, time, tz) == [t |-> "datetime", v |-> [date |-> date, time |-> time, tz |-> tz]]

\* datetime.fromisoformat(s): a date, a date and a time joined by one
\* separator character, or those followed by a UTC offset; Throw stands for
\* ValueError. Without an offset the result carries no timezone (tz "none").
fromisoformat(s) ==
    IF Len(s) = 1 /\ s[1] \in DateLexemes THEN Instant(s[1], "00:00:00", "none")
    ELSE IF Len(s) = 3 /\ s[1] \in DateLexemes /\ s[2] \in {"T", " "} /\ s[3] \in TimeLexemes
         THEN Instant(s[1], s[3], "none")
    ELSE IF Len(s) = 4 /\ s[1] \in DateLexemes /\ s[2] \in {"T", " "} /\ s[3] \in TimeLexemes
            /\ s[4] \in OffsetLexemes
         THEN Instant(s[1], s[3], s[4])
    ELSE Throw

\* lines 177-186: the value of a reading whose device class is TIMESTAMP
timestamp_value(val) ==
    IF val.t = "datetime" \/ val = Null THEN val
    ELSE IF IsStr(val) THEN
        (IF fromisoformat(ReplaceZ(val.v)) # Throw THEN fromisoformat(ReplaceZ(val.v)) ELSE val)
    ELSE val

\* numbers of the model are whole, so float(sg) and round(x, 4) keep them
NumberOf(val) ==
    IF IsStr(val) THEN ParseFloat(Strip(val.v))
    ELSE IF val.t = "num" THEN val
    ELSE IF val.t = "bool" THEN Num(IF val.v THEN 1 ELSE 0)
    ELSE Null

\* the reading definitions (READINGS) by key
ReadingDefs == {"temperature", "density", "gravity_points", "batteryLevel", "wifiStrength", "time", "fermenter", "batch"}

\* native_value of the sensor `key` over the device's record
native_value(payload, key) ==
    IF key = "gravity_points"
    THEN (IF NumberOf(payload.density) # Null THEN Num((NumberOf(payload.density).v - 1) * 1000) ELSE Null)
    ELSE IF key = "density" THEN NumberOf(payload.density)
    ELSE IF key = "time" THEN timestamp_value(payload.time)
    ELSE payload[key]

----------------------------------------------------------------------------
(* The poll cycle: _async_update -> fetch_readings, one step per request      *)

VARIABLES
    srv,         \* the vendor API and the host: what the endpoints hold (devices,
                 \* fermenters, batches), what a reading request can answer
                 \* (answers), which endpoints can fail (faults), and the
                 \* reading definitions whose sensors are enabled (enabled)
    pc,          \* "devices", "fermenters", "batches", "lookup" or "done"
    devresp,     \* how /devices answered: "none", "throw" or "ok"
    fermresp,    \* how /fermenters answered: "none", "throw" or "ok"
    breqs,       \* the /batches requests issued so far, with their answers
    devices,     \* the list returned by /devices
    fermenters,  \* normalised fermenter list
    batches,     \* normalised batch list
    fmap,        \* device_to_fermenter_name
    bmap,        \* device_id_to_best_batch
    idx,         \* position in the loop over devices
    cand,        \* position in the candidates of _get_latest_reading
    tried,       \* the answers of the candidates requested for devices[idx]
    out,         \* the mapping under construction
    hist,        \* per handled device: what was extracted, looked up and emitted
    result,      \* "none", "ok" or "UpdateFailed"
    data,        \* coordinator.data: the mapping of the last successful cycle
    shown        \* the last value a sensor derived

vars == <<srv, pc, devresp, fermresp, breqs, devices, fermenters, batches, fmap, bmap,
          idx, cand, tried, out, hist, result, data, shown>>

NoData == [t |-> "none"]

NoValue == [id |-> <<>>, key |-> "none", value |-> Null]

\* the parameter variants of the /batches request, in order
BatchParams == <<"none", "limit", "take", "page+pageSize">>

\* variant: an exception of fetch_readings is swallowed
async_updateSwallow(raised, o, prev) == [result |-> "ok", data |-> o]

\* what the update method hands to the coordinator: the mapping, or UpdateFailed
\* for any exception of fetch_readings (the previous data stays)
async_update(raised, o, prev) ==
    IF raised THEN [result |-> "UpdateFailed", data |-> prev]
    ELSE [result |-> "ok", data |-> o]

\* one handled device, for the history
Handled(i, id, own, issued, answers, reading, rec) ==
    [idx |-> i, id |-> id, own |-> own, issued |-> issued, tried |-> answers,
     reading |-> reading, rec |-> rec]

\* the loop over devices from position i up to the next await: it ends the
\* cycle (returned or raised) or stops at a device that needs the lookup
RECURSIVE RunDevices(_, _, _, _, _, _)
RunDevices(devs, i, o, h, fm, bm) ==
    IF i > Len(devs) THEN [pc |-> "done", raised |-> FALSE, idx |-> i, out |-> o, hist |-> h]
    ELSE IF ~IsDict(devs[i]) THEN [pc |-> "done", raised |-> TRUE, idx |-> i, out |-> o, hist |-> h]
    ELSE IF ~Truthy(Get(devs[i], "id")) THEN RunDevices(devs, i + 1, o, h, fm, bm)
    ELSE IF ExtractRaises(devs[i])
         THEN [pc |-> "done", raised |-> TRUE, idx |-> i, out |-> o, hist |-> h]
    ELSE IF NeedsLookup(ExtractOwn(devs[i]))
         THEN [pc |-> "lookup", raised |-> FALSE, idx |-> i, out |-> o, hist |-> h]
    ELSE LET id == PyStr(Get(devs[i], "id"))
             own == ExtractOwn(devs[i])
             rec == Record(devs[i], id, own, fm, bm)
         IN RunDevices(devs, i + 1, Put(o, id, rec),
                       Append(h, Handled(i, id, own, FALSE, <<>>, Null, rec)), fm, bm)

\* the variables after the device loop ran from position i
Continue(devs, i, o, h, fm, bm) ==
    LET r == RunDevices(devs, i, o, h, fm, bm)
        u == async_update(r.raised, r.out, data)
    IN /\ pc' = r.pc
       /\ idx' = r.idx
       /\ out' = r.out
       /\ hist' = r.hist
       /\ cand' = 1
       /\ tried' = <<>>
       /\ result' = IF r.pc = "done" THEN u.result ELSE result
       /\ data' = IF r.pc = "done" THEN u.data ELSE data

StartState(world) ==
    /\ srv = world
    /\ pc = "devices"
    /\ devresp = "none"
    /\ fermresp = "none"
    /\ breqs = <<>>
    /\ devices = <<>>
    /\ fermenters = <<>>
    /\ batches = <<>>
    /\ fmap = EmptyMap
    /\ bmap = EmptyMap
    /\ idx = 1
    /\ cand = 1
    /\ tried = <<>>
    /\ out = EmptyMap
    /\ hist = <<>>
    /\ result = "none"
    /\ data = NoData
    /\ shown = NoValue

\* the answers an endpoint can give besides its content, when it can fail
Faulty(endpoint, answers) == IF endpoint \in srv.faults THEN answers ELSE {}

\* devices = await self._get("/devices"): an exception leaves fetch_readings
FetchDevices ==
    /\ pc = "devices"
    /\ \E resp \in Faulty("devices", {Throw}) \cup {srv.devices} :
          IF resp = Throw
          THEN /\ devresp' = "throw"
               /\ pc' = "done"
               /\ result' = async_update(TRUE, out, data).result
               /\ data' = async_update(TRUE, out, data).data
               /\ UNCHANGED devices
          ELSE /\ devresp' = "ok"
               /\ pc' = "fermenters"
               /\ devices' = resp.v
               /\ UNCHANGED <<result, data>>
    /\ UNCHANGED <<srv, fermresp, breqs, fermenters, batches, fmap, bmap, idx, cand, tried,
                   out, hist, shown>>

\* the /fermenters request: an exception is logged and the list stays empty
FetchFermenters ==
    /\ pc = "fermenters"
    /\ \E resp \in Faulty("fermenters", {Throw}) \cup {srv.fermenters} :
          /\ fermresp' = IF resp = Throw THEN "throw" ELSE "ok"
          /\ fermenters' = IF resp = Throw THEN <<>> ELSE normalize_list_response(resp)
    /\ pc' = "batches"
    /\ UNCHANGED <<srv, devresp, breqs, devices, batches, fmap, bmap, idx, cand, tried,
                   out, hist, result, data, shown>>

\* variant: the loop never breaks, every variant is requested
MoreBatchRequestsNoBreak(n, bs) == n < Len(BatchParams)

\* whether the loop over the /batches variants goes on after this answer
MoreBatchRequests(n, bs) == bs = <<>> /\ n < Len(BatchParams)

\* one /batches request of the loop over the parameter variants; when the
\* loop ends, the two associations are built and the device loop runs up to
\* its first await
FetchBatches ==
    /\ pc = "batches"
    /\ \E resp \in Faulty("batches", {Throw, List(<<>>)}) \cup {srv.batches} :
          LET n == Len(breqs) + 1
              bs == IF resp = Throw THEN batches ELSE normalize_list_response(resp)
              fm == device_to_fermenter_name(fermenters, EmptyMap)
              bm == device_id_to_best_batch(bs, EmptyMap)
          IN /\ breqs' = Append(breqs, [params |-> BatchParams[n], resp |-> resp])
             /\ batches' = bs
             /\ IF MoreBatchRequests(n, bs)
                THEN UNCHANGED <<pc, fmap, bmap, idx, cand, tried, out, hist, result, data>>
                ELSE /\ fmap' = fm
                     /\ bmap' = bm
                     /\ Continue(devices, 1, EmptyMap, <<>>, fm, bm)
    /\ UNCHANGED <<srv, devresp, fermresp, devices, fermenters, shown>>

\* one candidate request of _get_latest_reading for devices[idx]; when the
\* lookup returns, the record is emitted and the device loop goes on
Lookup ==
    /\ pc = "lookup"
    /\ \E resp \in srv.answers :
          LET step == LookupStep(cand, resp)
              answers == Append(tried, resp)
              id == PyStr(Get(devices[idx], "id"))
              own == ExtractOwn(devices[idx])
              rec == Record(devices[idx], id, Merge(own, step.reading), fmap, bmap)
          IN IF ~step.done
             THEN /\ cand' = cand + 1
                  /\ tried' = answers
                  /\ UNCHANGED <<pc, idx, out, hist, result, data>>
             ELSE Continue(devices, idx + 1, Put(out, id, rec),
                           Append(hist, Handled(idx, id, own, TRUE, answers, step.reading, rec)),
                           fmap, bmap)
    /\ UNCHANGED <<srv, devresp, fermresp, breqs, devices, fermenters, batches, fmap, bmap, shown>>

\* a sensor of a device derives its value from the coordinator's data
NativeValue ==
    /\ pc = "done"
    /\ data # NoData
    /\ \E id \in DOMAIN data, key \in ReadingDefs \cap srv.enabled :
          shown' = [id |-> id, key |-> key, value |-> native_value(data[id], key)]
    /\ UNCHANGED <<srv, pc, devresp, fermresp, breqs, devices, fermenters, batches, fmap, bmap,
                   idx, cand, tried, out, hist, result, data>>

Next == FetchDevices \/ FetchFermenters \/ FetchBatches \/ Lookup \/ NativeValue

----------------------------------------------------------------------------
(* The API contents the cycle is checked against                              *)

MaxDevices == 2

MaxFermenters == 2

MaxBatches == 2

\* sequences over S of length at most n
SeqsUpTo(S, n) == UNION {[1..k -> S] : k \in 0..n}

Chars(s) == Str(s)

IdD1 == Chars(<<"d", "1">>)

IdD2 == Chars(<<"d", "2">>)

StampZ == Chars(<<"2024-06-01", "T", "12:00:00", "Z">>)

StampOffset == Chars(<<"2024-06-02", "T", "12:00:00", "+02:00">>)

StampLocal == Chars(<<"2024-06-01", "T", "12:00:00">>)

StampBad == Chars(<<"not-a-date">>)

\* a complete latest reading: nothing to look up
DevComplete ==
    Dict([id |-> IdD1, name |-> Chars(<<"T", "a", "n", "k">>), batteryLevel |-> Num(90),
          latestReading |-> Dict([temperature |-> Num(20), density |-> Num(1), time |-> StampZ])])

\* integer identifier, no name, a numeric string for the temperature, no gravity
DevPartial ==
    Dict([id |-> Num(2), rssi |-> Num(-60),
          latestReading |-> Dict([temperature |-> Chars(<<" ", "2", "1", " ">>)])])

\* no latest reading at all
DevBare == Dict([id |-> IdD2, name |-> Chars(<<"b">>)])

\* latestReading is a string
DevLatestString == Dict([id |-> IdD1, latestReading |-> Chars(<<"a", "b">>)])

\* latestReading is a non-empty list
DevLatestList == Dict([id |-> IdD2, latestReading |-> List(<<Num(1)>>)])

\* a temperature that is no number, a gravity nested one level down
DevOddFields ==
    Dict([id |-> IdD2, name |-> Chars(<<"w">>),
          latestReading |-> Dict([temperature |-> Chars(<<"w", "a">>),
                                  density |-> Dict([specificGravity |-> Num(1)])])])

\* the reading nested under "reading", the time beside it
DevNested ==
    Dict([id |-> IdD1, latestReadingTime |-> StampOffset,
          latestReading |-> Dict([reading |-> Dict([temp |-> Num(19), sg |-> Chars(<<"1">>)])])])

\* an entry without identifier
DevNoId == Dict([name |-> Chars(<<"a">>)])

DeviceEntries ==
    {DevComplete, DevPartial, DevBare, DevLatestString, DevLatestList, DevOddFields,
     DevNested, DevNoId}

ReadingFull == Dict([temperature |-> Num(18), sg |-> Chars(<<"1">>), time |-> StampZ])

ReadingNested ==
    Dict([values |-> Dict([temp |-> Dict([celsius |-> Num(17)]),
                           density |-> Dict([plato |-> Num(12)]),
                           date |-> StampLocal])])

\* what a candidate request can answer
AnswersMain ==
    {Throw,
     List(<<>>),
     List(<<ReadingFull>>),
     Dict([items |-> List(<<ReadingNested>>)]),
     Dict([temp |-> Num(16)]),
     Dict([message |-> Chars(<<"a">>)])}

AnswersBasic == {List(<<ReadingFull>>)}

FermenterFV1 == Dict([name |-> Chars(<<"F", "V", "1">>), devices |-> List(<<IdD1, Dict([id |-> IdD2])>>)])

FermenterFV2 == Dict([name |-> Chars(<<"F", "V", "2">>), proId |-> Num(2)])

BatchIPA == Dict([name |-> Chars(<<"I", "P", "A">>), devices |-> List(<<IdD1>>), enabled |-> Bool(TRUE)])

FermentersBasic == List(<<FermenterFV1, FermenterFV2>>)

BatchesBasic == Dict([items |-> List(<<BatchIPA>>)])

Endpoints == {"devices", "fermenters", "batches"}

World(ds, fs, bs, as, faults, enabled) ==
    [devices |-> ds, fermenters |-> fs, batches |-> bs, answers |-> as, faults |-> faults,
     enabled |-> enabled]

\* every device list of up to MaxDevices entries, every endpoint can fail
WorldsMain ==
    {World(List(ds), FermentersBasic, BatchesBasic, AnswersBasic, Endpoints, {"time"}) :
        ds \in SeqsUpTo(DeviceEntries, MaxDevices)}

Init == \E world \in WorldsMain : StartState(world)

Spec == Init /\ [][Next]_vars

\* the devices whose readings have to be looked up, every answer of a candidate
WorldsLookup ==
    {World(List(ds), FermentersBasic, BatchesBasic, AnswersMain, {}, {"time"}) :
        ds \in SeqsUpTo({DevComplete, DevPartial, DevBare}, MaxDevices)}

InitLookup == \E world \in WorldsLookup : StartState(world)

SpecLookup == InitLookup /\ [][Next]_vars

\* the devices the fermenter and batch lists refer to: d1, d2 and 2
DevicesBasic == List(<<DevComplete, DevBare, DevPartial>>)

Name(c) == Chars(<<"F", "V", c>>)

FermenterEntries ==
    {FermenterFV1,
     FermenterFV2,
     Dict([name |-> Name("3"), devices |-> List(<<Dict([deviceId |-> IdD2])>>)]),
     Dict([name |-> Name("4"), device |-> IdD1]),
     Dict([title |-> Chars(<<"a">>), devices |-> List(<<IdD1>>)]),
     Dict([name |-> Name("6")]),
     Dict([name |-> Name("7"), proId |-> IdD1])}

\* every fermenter list of up to MaxFermenters entries
WorldsFermenters ==
    {World(DevicesBasic, List(fs), BatchesBasic, AnswersBasic, {}, {"fermenter"}) :
        fs \in SeqsUpTo(FermenterEntries, MaxFermenters)}

InitFermenters == \E world \in WorldsFermenters : StartState(world)

SpecFermenters == InitFermenters /\ [][Next]_vars

Ten == Chars(<<"1", "0">>)

Nine == Chars(<<"9">>)

BatchEntries ==
    {Dict([name |-> Chars(<<"a">>), enabled |-> Bool(TRUE), updatedAt |-> Ten, devices |-> List(<<IdD1>>)]),
     Dict([name |-> Chars(<<"b">>), enabled |-> Bool(FALSE), updatedAt |-> Nine,
           devices |-> List(<<IdD1, Dict([id |-> IdD2])>>)]),
     Dict([batchCode |-> Chars(<<"d">>), start |-> Nine, devices |-> List(<<IdD1, Num(2)>>)]),
     Dict([name |-> Chars(<<"w">>), enabled |-> Bool(TRUE), archived |-> Bool(TRUE), updatedAt |-> Nine,
           devices |-> List(<<IdD1>>)]),
     Dict([name |-> Chars(<<"T">>), enabled |-> Bool(TRUE), end |-> StampZ, createdAt |-> Ten,
           devices |-> List(<<Dict([_id |-> IdD2]), IdD1>>)]),
     Dict([name |-> Chars(<<"Z">>), enabled |-> Bool(TRUE), updatedAt |-> Nine, devices |-> List(<<>>)]),
     Dict([name |-> Chars(<<"0">>), devices |-> List(<<IdD1>>)]),
     Dict([name |-> Chars(<<"1">>), updatedAt |-> Ten, devices |-> IdD1])}

\* every batch list of up to MaxBatches entries
WorldsBatches ==
    {World(DevicesBasic, FermentersBasic, List(bs), AnswersBasic, {}, {"batch"}) :
        bs \in SeqsUpTo(BatchEntries, MaxBatches)}

InitBatches == \E world \in WorldsBatches : StartState(world)

SpecBatches == InitBatches /\ [][Next]_vars

DevTimed(stamp) ==
    Dict([id |-> IdD1,
          latestReading |-> Dict([temperature |-> Num(20), density |-> Num(1), time |-> stamp])])

TimeValues == {StampZ, StampOffset, StampLocal, StampBad, Null, Num(1717)}

\* a device with each kind of time value, every sensor enabled
WorldsSensors ==
    {World(List(<<DevTimed(stamp), DevBare>>), FermentersBasic, BatchesBasic, AnswersBasic,
           Endpoints, ReadingDefs) : stamp \in TimeValues}

InitSensors == \E world \in WorldsSensors : StartState(world)

SpecSensors == InitSensors /\ [][Next]_vars

\* temperature and time resolved by the entry, the gravity missing
DevStamped ==
    Dict([id |-> IdD1, name |-> Chars(<<"T", "a", "n", "k">>), battery |-> Num(80), signal |-> Num(3),
          latestReading |-> Dict([temp |-> Num(20), timestamp |-> StampOffset])])

\* an empty string as the time of the entry, temperature and gravity missing
DevEmptyTime == Dict([id |-> Num(2), latestReadingTime |-> Chars(<<>>)])

AnswersFrame ==
    {Throw,
     List(<<ReadingFull>>),
     Dict([items |-> List(<<ReadingNested>>)]),
     Dict([temp |-> Num(16)])}

\* devices whose entry resolves a part of the reading, looked up for the rest
WorldsFrame ==
    {World(List(ds), FermentersBasic, BatchesBasic, AnswersFrame, {}, {"time"}) :
        ds \in SeqsUpTo({DevStamped, DevOddFields, DevEmptyTime}, MaxDevices)}

InitFrame == \E world \in WorldsFrame : StartState(world)

SpecFrame == InitFrame /\ [][Next]_vars

----------------------------------------------------------------------------
(* Properties                                                                 *)

Range(q) == {q[i] : i \in DOMAIN q}

\* a candidate's answer that yields a reading
Usable(resp) == resp # Throw /\ ReadingOf(resp) # Null

AllThrow(answers) == \A k \in DOMAIN answers : answers[k] = Throw

\* the devices of the list that have an identifier
Identified == {i \in DOMAIN devices : IsDict(devices[i]) /\ Truthy(Get(devices[i], "id"))}

\* C1: the lookup goes on to the next candidate after an answer that is not
\* usable, ends at the first usable answer with its reading, and returns null
\* only when none of the four candidates gave a usable answer
C1_UnusableAnswerTriesNext ==
    \A h \in Range(hist) :
        h.tried # <<>> =>
            /\ \A k \in 1..(Len(h.tried) - 1) : ~Usable(h.tried[k])
            /\ Usable(h.tried[Len(h.tried)]) \/ Len(h.tried) = Len(Candidates)
            /\ h.reading = IF Usable(h.tried[Len(h.tried)])
                           THEN ReadingOf(h.tried[Len(h.tried)]) ELSE Null

\* C2 as stated: a reading request is issued for a device only if both its
\* temperature and its gravity are null after extraction from its own entry
C2_LookupOnlyIfBothNull ==
    /\ \A h \in Range(hist) : h.tried # <<>> => (h.own.temp = Null /\ h.own.sg = Null)
    /\ pc = "lookup" =>
          (ExtractOwn(devices[idx]).temp = Null /\ ExtractOwn(devices[idx]).sg = Null)

\* C2 amended: a reading request is issued for a device only if at least one
\* of its temperature and gravity is null after extraction from its own
\* entry; when both were extracted no request is issued for it
C2_LookupOnlyIfSomeNull ==
    /\ \A h \in Range(hist) :
          /\ h.tried # <<>> => (h.own.temp = Null \/ h.own.sg = Null)
          /\ (h.own.temp # Null /\ h.own.sg # Null) => (h.tried = <<>> /\ ~h.issued)
    /\ pc = "lookup" =>
          (ExtractOwn(devices[idx]).temp = Null \/ ExtractOwn(devices[idx]).sg = Null)

\* a device with exactly one of the two values extracted was looked up, and
\* one with both extracted was emitted without a request
C2_Witness ==
    /\ \E h \in Range(hist) : h.tried # <<>> /\ h.own.temp # Null /\ h.own.sg = Null
    /\ \E h \in Range(hist) : h.tried = <<>> /\ h.own.temp # Null /\ h.own.sg # Null

\* C3: whatever the shape of a device entry's fields, the cycle completes
\* and emits a record for every device that has an identifier
C3_MalformedFieldOnlyNull ==
    (pc = "done" /\ devresp = "ok") =>
        /\ result = "ok"
        /\ \A i \in Identified : PyStr(Get(devices[i], "id")) \in DOMAIN data

\* C4: when the /devices request fails the cycle ends as UpdateFailed, no
\* mapping is produced and no other endpoint is asked
C4_DevicesFailureIsFatal ==
    devresp = "throw" =>
        /\ pc = "done"
        /\ result = "UpdateFailed"
        /\ data = NoData
        /\ out = EmptyMap
        /\ fermresp = "none"
        /\ breqs = <<>>

C4_Witness == devresp = "throw" /\ result = "UpdateFailed" /\ Len(srv.devices.v) = MaxDevices

AllBatchRequestsThrew ==
    Len(breqs) = Len(BatchParams) /\ \A k \in DOMAIN breqs : breqs[k].resp = Throw

\* C5: when /fermenters failed, or every /batches request failed, after
\* /devices succeeded, the cycle succeeds with a record for every device and
\* the fermenter (respectively batch) field of every record is null
C5_DegradableFailures ==
    (pc = "done" /\ devresp = "ok" /\ (fermresp = "throw" \/ AllBatchRequestsThrew)) =>
        /\ result = "ok"
        /\ \A i \in Identified : PyStr(Get(devices[i], "id")) \in DOMAIN data
        /\ \A id \in DOMAIN data :
              /\ fermresp = "throw" => data[id].fermenter = Null
              /\ AllBatchRequestsThrew => data[id].batch = Null

\* C6: a candidate that throws is followed by the next one; after four
\* throws the lookup returns null, the record of the device is emitted with
\* the fields its own entry did not resolve left null, and the cycle does not
\* fail because of the lookup
C6_ThrowingCandidatesSkipped ==
    /\ \A h \in Range(hist) :
          /\ (h.tried # <<>> /\ h.tried[Len(h.tried)] = Throw) => Len(h.tried) = Len(Candidates)
          /\ (Len(h.tried) = Len(Candidates) /\ AllThrow(h.tried)) =>
                /\ h.reading = Null
                /\ h.rec.temperature = h.own.temp
                /\ h.rec.density = h.own.sg
                /\ h.id \in DOMAIN out
    /\ pc = "lookup" => (AllThrow(tried) /\ cand = Len(tried) + 1 /\ cand <= Len(Candidates))
    /\ result = "UpdateFailed" =>
          \/ devresp = "throw"
          \/ idx \in DOMAIN devices /\ (~IsDict(devices[idx]) \/ ExtractRaises(devices[idx]))

\* all four candidates threw for a device whose record went out with both
\* values null, and the cycle succeeded
C6_Witness ==
    /\ result = "ok"
    /\ \E h \in Range(hist) :
          /\ Len(h.tried) = Len(Candidates) /\ AllThrow(h.tried)
          /\ data[h.id].temperature = Null /\ data[h.id].density = Null

RecordFields == {"name", "batteryLevel", "wifiStrength", "temperature", "density", "time", "fermenter", "batch"}

\* C9: after a successful cycle the mapping is keyed by the string form of
\* the device identifiers, and every record has exactly the eight fields,
\* with a name that is not null
C9_OutputShape ==
    result = "ok" =>
        /\ DOMAIN data = {PyStr(Get(devices[i], "id")) : i \in Identified}
        /\ \A id \in DOMAIN data :
              /\ DOMAIN data[id] = RecordFields
              /\ data[id].name # Null
              /\ id \in Seq({"d", "-"} \cup Range(Digits))

\* a device with an integer identifier and no name got a record under the
\* string form of the identifier
C9_Witness ==
    /\ result = "ok"
    /\ <<"2">> \in DOMAIN data
    /\ data[<<"2">>].name = Str(PlaatoPrefix \o <<"2">>)

IdKeys == {"id", "_id", "deviceId", "proId"}

\* a list item that names the device: its plain identifier, or an object
\* bearing it
ItemNames(item, id) ==
    \/ IsStrOrInt(item) /\ PyStr(item) = id
    \/ IsDict(item) /\ \E k \in IdKeys : Truthy(Get(item, k)) /\ PyStr(Get(item, k)) = id

\* the batch's devices list names the device
BatchNames(b, id) ==
    IsList(Get(b, "devices")) /\ \E item \in Range(Get(b, "devices").v) : ItemNames(item, id)

\* the first of updatedAt, start, createdAt that is set, as a string
Recency(b) ==
    IF Truthy(Get(b, "updatedAt")) THEN PyStr(Get(b, "updatedAt"))
    ELSE IF Truthy(Get(b, "start")) THEN PyStr(Get(b, "start"))
    ELSE IF Truthy(Get(b, "createdAt")) THEN PyStr(Get(b, "createdAt"))
    ELSE <<>>

Flag(b) == IF b THEN 1 ELSE 0

\* a outranks b: (enabled, not archived, not ended, recency), lexicographically
Outranks(a, b) ==
    LET ra == <<Flag(Get(a, "enabled") # Bool(FALSE)), Flag(Get(a, "archived") # Bool(TRUE)),
                Flag(Get(a, "end") = Null)>>
        rb == <<Flag(Get(b, "enabled") # Bool(FALSE)), Flag(Get(b, "archived") # Bool(TRUE)),
                Flag(Get(b, "end") = Null)>>
    IN \/ ra[1] > rb[1]
       \/ ra[1] = rb[1] /\ ra[2] > rb[2]
       \/ ra[1] = rb[1] /\ ra[2] = rb[2] /\ ra[3] > rb[3]
       \/ ra = rb /\ StrLess(Recency(b), Recency(a))

MapsBuilt == pc \in {"lookup", "done"} /\ devresp = "ok"

KnownIds == {<<"d", "1">>, <<"d", "2">>, <<"2">>}

\* C7: the batch of a device is one of the batches whose devices list names
\* it, no batch naming it outranks the chosen one, a device no batch names
\* has no batch, and the record carries the chosen batch's label
C7_BestBatchIsMaximal ==
    MapsBuilt =>
        /\ \A id \in KnownIds \cup DOMAIN bmap :
              LET naming == {k \in DOMAIN batches : BatchNames(batches[k], id)}
              IN IF naming = {} THEN id \notin DOMAIN bmap
                 ELSE /\ id \in DOMAIN bmap
                      /\ \E k \in naming : bmap[id] = batches[k]
                      /\ \A k \in naming : ~Outranks(batches[k], bmap[id])
        /\ \A id \in DOMAIN out :
              out[id].batch = IF id \in DOMAIN bmap
                              THEN Or(Or(Or(Get(bmap[id], "name"), Get(bmap[id], "batchCode")),
                                         Get(bmap[id], "id")), Get(bmap[id], "_id"))
                              ELSE Null

\* an enabled batch listed after a disabled one with the greater recency
\* string, both naming d1: the enabled one replaces it as d1's batch, and
\* device 2, which neither names, has none
C7_Witness ==
    /\ result = "ok"
    /\ Len(batches) = 2
    /\ BatchNames(batches[1], <<"d", "1">>) /\ BatchNames(batches[2], <<"d", "1">>)
    /\ Get(batches[1], "enabled") = Bool(FALSE) /\ Get(batches[2], "enabled") = Bool(TRUE)
    /\ StrLess(Recency(batches[2]), Recency(batches[1]))
    /\ data[<<"d", "1">>].batch = Get(batches[2], "name")
    /\ <<"2">> \in DOMAIN data /\ data[<<"2">>].batch = Null

\* the fermenter refers to the device in one of the three shapes
InShape(f, id) ==
    \/ IsList(Get(f, "devices")) /\ \E item \in Range(Get(f, "devices").v) : ItemNames(item, id)
    \/ Truthy(Get(f, "proId")) /\ PyStr(Get(f, "proId")) = id

\* the fermenter refers to the device at all
Mentions(f, id) == InShape(f, id) \/ ItemNames(Get(f, "device"), id)

\* C8: a device that exactly one fermenter refers to, in one of the three
\* shapes, has that fermenter's name in its record; a device no fermenter
\* refers to has a null fermenter
C8_FermenterOfDevice ==
    \A id \in DOMAIN out :
        LET refs == {k \in DOMAIN fermenters : Mentions(fermenters[k], id)}
        IN /\ refs = {} => out[id].fermenter = Null
           /\ \A k \in refs :
                 (refs = {k} /\ InShape(fermenters[k], id) /\ Truthy(Get(fermenters[k], "name")))
                    => out[id].fermenter = Str(PyStr(Get(fermenters[k], "name")))

\* devices ["d1", {"id": "d2"}] of FV1 give d1 and d2 its name, the proId of
\* FV2 gives device 2 its name
C8_Witness ==
    /\ result = "ok"
    /\ fermenters = <<FermenterFV1, FermenterFV2>>
    /\ data[<<"d", "1">>].fermenter = Name("1")
    /\ data[<<"d", "2">>].fermenter = Name("1")
    /\ data[<<"2">>].fermenter = Name("2")

\* a date, optionally followed by a time, optionally followed by Z or an offset
WellFormedISO(s) ==
    \/ Len(s) = 1 /\ s[1] \in DateLexemes
    \/ Len(s) = 3 /\ s[1] \in DateLexemes /\ s[2] = "T" /\ s[3] \in TimeLexemes
    \/ Len(s) = 4 /\ s[1] \in DateLexemes /\ s[2] = "T" /\ s[3] \in TimeLexemes
       /\ s[4] \in OffsetLexemes \cup {"Z"}

\* C10: the value of the time sensor is null for a null time, the timestamp
\* itself for a timestamp, a timezone-aware instant for a well-formed
\* ISO-8601 string (Z read as UTC), and the raw string for any other string
C10_TimestampValue ==
    shown.key = "time" =>
        LET val == data[shown.id].time
        IN /\ val = Null => shown.value = Null
           /\ val.t = "datetime" => shown.value = val
           /\ (IsStr(val) /\ WellFormedISO(val.v)) =>
                 /\ shown.value.t = "datetime"
                 /\ shown.value.v.tz # "none"
                 /\ val.v[Len(val.v)] = "Z" => shown.value.v.tz = "+00:00"
           /\ (IsStr(val) /\ ~WellFormedISO(val.v)) => shown.value = val

\* the order in which the /batches variants are to be requested
VariantOrder == <<"none", "limit", "take", "page+pageSize">>

\* the batch list an answer yields; none for a request that raised
Yields(resp) == IF resp = Throw THEN <<>> ELSE normalize_list_response(resp)

\* C11: the /batches variants are requested in the order none, limit, take,
\* page+pageSize; every request but the last one issued threw or yielded an
\* empty list; the sequence ends at the first non-empty list or after the
\* fourth request, and the batch list used is that first non-empty list
\* (empty if there is none)
C11_BatchVariantsInOrder ==
    /\ Len(breqs) <= Len(VariantOrder)
    /\ \A k \in DOMAIN breqs : breqs[k].params = VariantOrder[k]
    /\ \A k \in 1..(Len(breqs) - 1) : Yields(breqs[k].resp) = <<>>
    /\ pc = "batches" =>
          /\ Len(breqs) < Len(VariantOrder)
          /\ \A k \in DOMAIN breqs : Yields(breqs[k].resp) = <<>>
    /\ MapsBuilt =>
          /\ breqs # <<>>
          /\ Yields(breqs[Len(breqs)].resp) # <<>> \/ Len(breqs) = Len(VariantOrder)
          /\ batches = Yields(breqs[Len(breqs)].resp)

\* the first variant threw, the second yielded an empty list, the third a
\* batch list, which is the one used, and the fourth was not requested
C11_Witness ==
    /\ pc = "done"
    /\ result = "ok"
    /\ Len(breqs) = 3
    /\ breqs[1].resp = Throw
    /\ breqs[2].resp = List(<<>>)
    /\ batches = <<BatchIPA>>

\* the fields of the record the lookup has no part in, from the entry alone
Untouched(h) ==
    LET dev == devices[h.idx]
    IN /\ h.rec.name = (IF Truthy(Get(dev, "name")) THEN Get(dev, "name") ELSE Str(PlaatoPrefix \o h.id))
       /\ h.rec.batteryLevel = pick(dev, <<"batteryLevel", "battery", "battery_percent">>)
       /\ h.rec.wifiStrength = pick(dev, <<"wifiStrength", "rssi", "signal">>)
       /\ h.rec.fermenter = MapGet(fmap, h.id)
       /\ h.rec.batch = (IF h.id \in DOMAIN bmap THEN batch_label(bmap[h.id]) ELSE Null)

\* C12 as stated: after a lookup, a temperature, gravity or time that the
\* device's own entry resolved (is not null) is unchanged in the record, and
\* name, batteryLevel, wifiStrength, fermenter and batch are those of the entry
C12_LookupFillsOnlyNull ==
    \A h \in Range(hist) :
        h.tried # <<>> =>
            /\ h.own.temp # Null => h.rec.temperature = h.own.temp
            /\ h.own.sg # Null => h.rec.density = h.own.sg
            /\ h.own.time # Null => h.rec.time = h.own.time
            /\ Untouched(h)

\* C12 amended: as stated, except that the time of the entry is kept only
\* when it is truthy (not null, false, zero, nor an empty string, list or
\* object)
C12_LookupFillsOnlyMissing ==
    \A h \in Range(hist) :
        h.tried # <<>> =>
            /\ h.own.temp # Null => h.rec.temperature = h.own.temp
            /\ h.own.sg # Null => h.rec.density = h.own.sg
            /\ Truthy(h.own.time) => h.rec.time = h.own.time
            /\ Untouched(h)

\* a lookup returned a reading with another temperature and another time
\* than the entry resolved, and the record kept the entry's
C12_Witness ==
    \E h \in Range(hist) :
        /\ IsDict(h.reading)
        /\ h.own.temp = Num(20) /\ pick(h.reading, TempKeys) = Num(18)
        /\ h.own.time = StampOffset /\ pick(h.reading, TimeKeys) = StampZ
        /\ h.rec.temperature = Num(20) /\ h.rec.time = StampOffset
        /\ h.rec.density = Num(1)

====
